---------------------------- MODULE Spec2Model ----------------------------
(***************************************************************************)
(* A model of k8s_deployment_status/main.py: get_k8s_data (memoised with   *)
(* lru_cache), DeploymentStatus.__init__, make_api_request (a requests     *)
(* session whose adapter retries the statuses of status_forcelist),        *)
(* get_deployment_data (memoised with lru_cache, keyed by the object) and  *)
(* get.  Callers are threads of one process.                               *)
(*                                                                         *)
(* Python values: a str is a sequence of one-character strings, a dict is  *)
(* a record (a key is present iff it is in the record's DOMAIN), None is   *)
(* the value None below, a list is a sequence.                             *)
(***************************************************************************)
EXTENDS Integers, Sequences, FiniteSets, TLC

\* ------------------------------------------------------------------ bounds

\* Number of caller threads of the process.
NumCallers == 2

\* Number of status requests started in one behaviour.
MaxCalls == 2

\* Longest container image reference drawn.
MaxImageLen == 3

\* Longest container image reference drawn where callers run concurrently.
MaxThreadImageLen == 1

\* ------------------------------------------------------- program constants

\* config.GITHUB_API_MAXIMUM_RETRIES (Retry(total=...)).
GITHUB_API_MAXIMUM_RETRIES == 1

\* config.GITHUB_API_PAGE_SIZE (per_page): the longest page the API returns.
GITHUB_API_PAGE_SIZE == 2

\* config.GITHUB_DEPLOYMENT_BRANCH and config.COMMITS_API_URL.
GITHUB_DEPLOYMENT_BRANCH == "main"
COMMITS_API_URL == "https://api.github.com/repos/o/r/commits"

\* maxsize of the lru_cache of get_deployment_data.
lru_maxsize == 128

\* status_forcelist of the Retry strategy.
status_forcelist == {500, 502, 503, 504, 408, 429}

\* ------------------------------------------------------------ Python values

None == <<"None">>

EmptyDict == <<>>

\* d.get(k, default)
Get(d, k, default) == IF k \in DOMAIN d THEN d[k] ELSE default

\* isinstance(x, dict): a JSON value that is no object is [json_type |-> ...]
IsDict(x) == "json_type" \notin DOMAIN x

\* All sequences over S of length at most n.
SeqsUpTo(S, n) == UNION {[1..k -> S] : k \in 0..n}

\* sub in s, for str operands
Contains(sub, s) ==
    \E i \in 0..(Len(s) - Len(sub)) : SubSeq(s, i + 1, i + Len(sub)) = sub

\* s.split(sep) for a one-character separator: the parts between separators.
RECURSIVE SplitFrom(_, _, _, _)
SplitFrom(s, sep, i, cur) ==
    IF i > Len(s) THEN <<cur>>
    ELSE IF s[i] = sep THEN <<cur>> \o SplitFrom(s, sep, i + 1, <<>>)
    ELSE SplitFrom(s, sep, i + 1, Append(cur, s[i]))

Split(s, sep) == SplitFrom(s, sep, 1, <<>>)

\* ------------------------------------------------------------- timestamps

\* A datetime is <<year, month, day, hour, minute, second>>.
DayNames == <<"Mon", "Tue", "Wed", "Thu", "Fri", "Sat", "Sun">>
MonthNames == <<"Jan", "Feb", "Mar", "Apr", "May", "Jun",
                "Jul", "Aug", "Sep", "Oct", "Nov", "Dec">>
MonthOffsets == <<0, 3, 2, 5, 0, 3, 5, 1, 4, 6, 2, 4>>

\* datetime.weekday(): 0 is Monday.
Weekday(dt) ==
    LET y == IF dt[2] < 3 THEN dt[1] - 1 ELSE dt[1]
        sun0 == (y + (y \div 4) - (y \div 100) + (y \div 400)
                 + MonthOffsets[dt[2]] + dt[3]) % 7
    IN (sun0 + 6) % 7

\* dt.strftime("%a, %d %b %Y %H:%M:%S UTC")
Strftime(dt) ==
    [a |-> DayNames[Weekday(dt) + 1], d |-> dt[3], b |-> MonthNames[dt[2]],
     Y |-> dt[1], H |-> dt[4], M |-> dt[5], S |-> dt[6], tz |-> "UTC"]

\* A date string of the API is [iso |-> datetime] when it has the form
\* %Y-%m-%dT%H:%M:%SZ and [text |-> ...] otherwise ("" is [text |-> ""]).
EmptyDateStr == [text |-> ""]

\* datetime.strptime(s, "%Y-%m-%dT%H:%M:%SZ") raises ValueError unless s matches.
StrptimeOk(s) == "iso" \in DOMAIN s
Strptime(s) == s.iso


\* ------------------------------------------------- the world outside the code

\* Characters of a container image reference.
ImageChars == {":", "a"}

\* Image references the pod may run.
Images == SeqsUpTo(ImageChars, MaxImageLen)

\* metadata.creation_timestamp of the pod.
PodCreationTimes == {<<2024, 2, 29, 23, 59, 59>>}

\* What the commits API may answer: statuses, and for 200 a JSON page.
StatusCodes == {200, 404, 503}

\* The commits of the repository: sha, committer date, message.
Shas == {<<"a", "b">>, <<"b", "a">>, <<"b", "b">>}
DateOf(sha) ==
    IF sha[1] = "a" THEN [iso |-> <<2024, 3, 1, 10, 0, 0>>]
    ELSE [iso |-> <<2024, 1, 2, 3, 4, 5>>]
MessageOf(sha) == IF sha[2] = "a" THEN <<"add feature">> ELSE <<"fix bug">>

\* A commit object as the API documents it.
CommitObject(s) ==
    [sha |-> s, commit |-> [committer |-> [date |-> DateOf(s)], message |-> MessageOf(s)]]

\* Commit objects of a page: as documented, or one with a committer date of
\* another form, without a committer date, or without a "sha".
CommitObjects ==
    {CommitObject(s) : s \in Shas}
    \cup {[CommitObject(<<"a", "b">>) EXCEPT !.commit.committer.date = [text |-> "yesterday"]],
          [CommitObject(<<"a", "b">>) EXCEPT !.commit.committer = EmptyDict],
          [commit |-> CommitObject(<<"a", "b">>).commit]}

\* Objects that carry a "status_code" key, and JSON values that are no objects.
StatusObjects ==
    {[msg |-> <<"rate limited">>, status_code |-> 403]}
NonObjects == {[json_type |-> "string"]}

PageItems == CommitObjects \cup StatusObjects \cup NonObjects

\* response.json() of a 200 answer: at most per_page items.
Pages == SeqsUpTo(PageItems, GITHUB_API_PAGE_SIZE)

\* ------------------------------------------------------------ get_k8s_data

\* ImageTag with [0] for [-1]: the part before the first colon.
ImageTagFirstPart(container_image) ==
    IF \E i \in 1..Len(container_image) : container_image[i] = ":"
    THEN Split(container_image, ":")[1]
    ELSE None

\* container_image.split(":")[-1] if ":" in container_image else None
ImageTag(container_image) ==
    IF \E i \in 1..Len(container_image) : container_image[i] = ":"
    THEN LET parts == Split(container_image, ":") IN parts[Len(parts)]
    ELSE None

\* The value get_k8s_data returns for the pod's data.
K8sData(pod) == <<pod.creation_timestamp, ImageTag(pod.image)>>

\* ------------------------------------------------------- DeploymentStatus

\* __init__: the object built from what get_k8s_data returned.
NewDeploymentStatus(k8s_data) ==
    [github_commits_api_url |-> COMMITS_API_URL,
     pod_created_time |-> Strftime(k8s_data[1]),
     pod_sha |-> k8s_data[2]]

\* What a call returns or raises.
Returned(v) == [kind |-> "return", value |-> v]
Raised(e) == [kind |-> "raise", exc |-> e]

\* make_api_request, after the session answered with a final response:
\* response.json() for 200, the one-element error list otherwise.
ErrorRecord(status_code) ==
    [msg |-> <<"request failed with ", ToString(status_code),
               " from GitHub, try again later">>,
     status_code |-> 503]

ResponseData(status_code, body) ==
    IF status_code = 200 THEN body ELSE <<ErrorRecord(status_code)>>

\* The query parameters make_api_request sends.
Params == [sha |-> GITHUB_DEPLOYMENT_BRANCH, per_page |-> GITHUB_API_PAGE_SIZE]

\* The default record of get_deployment_data.
DefaultRecord == [msg |-> <<"unable to lookup commit SHA">>, status_code |-> 400]

\* MatchOutcome with deployment_json.update(...) for the assignment: the keys of
\* the default record stay in the record.
MatchOutcomeUpdatesDefault(self, item) ==
    LET commit_merged_timestamp ==
            Get(Get(Get(item, "commit", EmptyDict), "committer", EmptyDict),
                "date", EmptyDateStr)
    IN IF ~StrptimeOk(commit_merged_timestamp) THEN Raised("ValueError")
       ELSE Returned(
            [msg |-> <<"unable to lookup commit SHA">>,
             status_code |-> 400,
             branch |-> GITHUB_DEPLOYMENT_BRANCH,
             commit_sha |-> Get(item, "sha", <<>>),
             commit_merged |-> Strftime(Strptime(commit_merged_timestamp)),
             commit_msg |-> Get(Get(item, "commit", EmptyDict), "message", <<>>),
             deployed_at |-> self.pod_created_time])

\* The record built from a matching item, or ValueError from strptime.
MatchOutcome(self, item) ==
    LET commit_merged_timestamp ==
            Get(Get(Get(item, "commit", EmptyDict), "committer", EmptyDict),
                "date", EmptyDateStr)
    IN IF ~StrptimeOk(commit_merged_timestamp) THEN Raised("ValueError")
       ELSE Returned(
            [branch |-> GITHUB_DEPLOYMENT_BRANCH,
             commit_sha |-> Get(item, "sha", <<>>),
             commit_merged |-> Strftime(Strptime(commit_merged_timestamp)),
             commit_msg |-> Get(Get(item, "commit", EmptyDict), "message", <<>>),
             deployed_at |-> self.pod_created_time])

\* The for loop of get_deployment_data from item i on.
RECURSIVE ScanFrom(_, _, _)
ScanFrom(self, commits_json, i) ==
    IF i > Len(commits_json) THEN Returned(DefaultRecord)
    ELSE LET item == commits_json[i] IN
         IF ~IsDict(item) THEN ScanFrom(self, commits_json, i + 1)
         ELSE IF self.pod_sha = None THEN Raised("TypeError")
         ELSE IF Contains(self.pod_sha, Get(item, "sha", <<>>))
              THEN MatchOutcome(self, item)
              ELSE ScanFrom(self, commits_json, i + 1)

\* (DeploymentDataScansFirst: the body with the status_code test after the for
\* loop, taking the first element only when no item matched.)
DeploymentDataScansFirst(self, commits_json) ==
    IF Len(commits_json) = 0 THEN Raised("IndexError")
    ELSE IF ~IsDict(commits_json[1]) THEN Raised("AttributeError")
    ELSE LET scanned == ScanFrom(self, commits_json, 1) IN
         IF "status_code" \in DOMAIN commits_json[1]
            /\ scanned = Returned(DefaultRecord)
         THEN Returned(commits_json[1])
         ELSE scanned

\* The body of get_deployment_data, given what make_api_request returned.
DeploymentData(self, commits_json) ==
    IF Len(commits_json) = 0 THEN Raised("IndexError")
    ELSE IF ~IsDict(commits_json[1]) THEN Raised("AttributeError")
    ELSE IF "status_code" \in DOMAIN commits_json[1] THEN Returned(commits_json[1])
    ELSE ScanFrom(self, commits_json, 1)

\* (IsRetryEveryError: a status_forcelist of every 4xx and 5xx status.)
\* Whether the session's Retry strategy retries an answer with this status, and
\* whether a retry is left after `retried` earlier requests of the call were
\* answered with such a status (Retry(total=GITHUB_API_MAXIMUM_RETRIES)).
IsRetryEveryError(status_code) == status_code >= 400
IsRetry(status_code) == status_code \in status_forcelist

\* (RetryLeftOneMore: a Retry that allows one retry more than total.)
RetryLeftOneMore(retried) == retried <= GITHUB_API_MAXIMUM_RETRIES
RetryLeft(retried) == retried < GITHUB_API_MAXIMUM_RETRIES

\* ------------------------------------------------------------------- state

Callers == 1..NumCallers

VARIABLES
    pod,          \* what the control plane holds: [image, creation_timestamp]
    k8s_cache,    \* lru_cache of get_k8s_data: <<>> or <<its one entry>>
    objects,      \* the DeploymentStatus objects constructed, in order
    dd_cache,     \* lru_cache of get_deployment_data: per object, <<>> or <<entry>>
    lru_order,    \* the objects with an entry in dd_cache, least recently used first
    results,      \* per object: <<>> or <<the first value get() returned on it>>
    pc,           \* per caller: "idle", "k8s_read", "request", "done"
    self_of,      \* per caller: index in objects of the object it calls get() on
    documented,   \* per caller: the request is DeploymentStatus().get()
    responses,    \* per caller: the statuses session.get received in this call
    ret,          \* per caller at "done": what its request returned or raised
    calls,        \* status requests that may still be started
    k8s_reads,    \* control-plane reads performed so far
    fetches,      \* per object: make_api_request calls performed so far
    last          \* the latest computation of get_deployment_data that ended

vars == <<pod, k8s_cache, objects, dd_cache, lru_order, results, pc, self_of,
          documented, responses, ret, calls, k8s_reads, fetches, last>>

NoOutcome == [kind |-> "none"]
NoLast == [kind |-> "none"]

\* Before the first request, in a pod that runs one of `images`.
InitWith(images, budget) ==
    /\ pod \in [image : images, creation_timestamp : PodCreationTimes]
    /\ k8s_cache = <<>>
    /\ objects = <<>>
    /\ dd_cache = <<>>
    /\ lru_order = <<>>
    /\ results = <<>>
    /\ pc = [t \in Callers |-> "idle"]
    /\ self_of = [t \in Callers |-> 0]
    /\ documented = [t \in Callers |-> FALSE]
    /\ responses = [t \in Callers |-> <<>>]
    /\ ret = [t \in Callers |-> NoOutcome]
    /\ calls = budget
    /\ k8s_reads = 0
    /\ fetches = <<>>
    /\ last = NoLast

Init == InitWith(Images, MaxCalls)

\* s without its elements equal to x.
Without(s, x) == SelectSeq(s, LAMBDA y : y # x)

\* __init__ after get_k8s_data returned k8s_data, then get() up to the miss in
\* the cache of get_deployment_data (a new object is a new key) and the start of
\* make_api_request.
ConstructAndGet(t, k8s_data) ==
    /\ objects' = Append(objects, NewDeploymentStatus(k8s_data))
    /\ dd_cache' = Append(dd_cache, <<>>)
    /\ results' = Append(results, <<>>)
    /\ fetches' = Append(fetches, 1)
    /\ self_of' = [self_of EXCEPT ![t] = Len(objects) + 1]
    /\ responses' = [responses EXCEPT ![t] = <<>>]
    /\ pc' = [pc EXCEPT ![t] = "request"]

\* StartRequest without the lru_cache of get_k8s_data: every request reads the
\* control plane.
StartRequestReadsAlways(t) ==
    /\ pc[t] = "idle"
    /\ calls > 0
    /\ calls' = calls - 1
    /\ documented' = [documented EXCEPT ![t] = TRUE]
    /\ pc' = [pc EXCEPT ![t] = "k8s_read"]
    /\ UNCHANGED <<pod, k8s_cache, objects, dd_cache, lru_order, results,
                   self_of, responses, ret, k8s_reads, fetches, last>>

\* A caller starts DeploymentStatus().get(): get_k8s_data is looked up in its cache.
StartRequest(t) ==
    /\ pc[t] = "idle"
    /\ calls > 0
    /\ calls' = calls - 1
    /\ documented' = [documented EXCEPT ![t] = TRUE]
    /\ IF k8s_cache # <<>>
       THEN /\ ConstructAndGet(t, k8s_cache[1])
            /\ UNCHANGED <<pod, k8s_cache, lru_order, ret, k8s_reads, last>>
       ELSE /\ pc' = [pc EXCEPT ![t] = "k8s_read"]
            /\ UNCHANGED <<pod, k8s_cache, objects, dd_cache, lru_order, results,
                           self_of, responses, ret, k8s_reads, fetches, last>>

\* The body of get_k8s_data succeeds: the entry is stored unless a concurrent
\* caller stored it meanwhile, and this caller goes on with its own value.
K8sReadOk(t) ==
    /\ pc[t] = "k8s_read"
    /\ k8s_reads' = k8s_reads + 1
    /\ k8s_cache' = IF k8s_cache = <<>> THEN <<K8sData(pod)>> ELSE k8s_cache
    /\ ConstructAndGet(t, K8sData(pod))
    /\ UNCHANGED <<pod, lru_order, documented, ret, calls, last>>

\* The control-plane read raises: nothing is cached, __init__ raises it on.
K8sReadFails(t) ==
    /\ pc[t] = "k8s_read"
    /\ k8s_reads' = k8s_reads + 1
    /\ ret' = [ret EXCEPT ![t] = Raised("ApiException")]
    /\ pc' = [pc EXCEPT ![t] = "done"]
    /\ UNCHANGED <<pod, k8s_cache, objects, dd_cache, lru_order, results, self_of,
                   documented, responses, calls, fetches, last>>

\* A caller calls get() on an object constructed earlier: a hit returns the
\* entry and makes it the most recently used, a miss starts make_api_request.
CallGet(t, o) ==
    /\ pc[t] = "idle"
    /\ calls > 0
    /\ o \in 1..Len(objects)
    /\ calls' = calls - 1
    /\ documented' = [documented EXCEPT ![t] = FALSE]
    /\ self_of' = [self_of EXCEPT ![t] = o]
    /\ responses' = [responses EXCEPT ![t] = <<>>]
    /\ IF dd_cache[o] # <<>>
       THEN /\ ret' = [ret EXCEPT ![t] = Returned(dd_cache[o][1])]
            /\ pc' = [pc EXCEPT ![t] = "done"]
            /\ lru_order' = Append(Without(lru_order, o), o)
            /\ UNCHANGED fetches
       ELSE /\ pc' = [pc EXCEPT ![t] = "request"]
            /\ fetches' = [fetches EXCEPT ![o] = @ + 1]
            /\ UNCHANGED <<ret, lru_order>>
    /\ UNCHANGED <<pod, k8s_cache, objects, dd_cache, results, k8s_reads, last>>

\* session.get is answered with a status the Retry strategy retries: the request
\* is sent again while a retry is left, and otherwise session.get raises
\* RetryError (raise_on_status is left at its default), which leaves
\* make_api_request, get_deployment_data and get, and caches nothing.
RetriedResponse(t, status_code) ==
    /\ pc[t] = "request"
    /\ IsRetry(status_code)
    /\ responses' = [responses EXCEPT ![t] = Append(@, status_code)]
    /\ IF RetryLeft(Len(responses[t]))
       THEN UNCHANGED <<pc, ret, last>>
       ELSE /\ pc' = [pc EXCEPT ![t] = "done"]
            /\ ret' = [ret EXCEPT ![t] = Raised("RetryError")]
            /\ last' = [kind |-> "fetch_raised", caller |-> t, self |-> self_of[t],
                        status_code |-> status_code]
    /\ UNCHANGED <<pod, k8s_cache, objects, dd_cache, lru_order, results, self_of,
                   documented, calls, k8s_reads, fetches>>

\* lru_cache after its function returned value for key o: nothing changes when a
\* concurrent call stored the key meanwhile; otherwise the entry is stored as the
\* most recently used, in place of the least recently used one when the cache
\* is full.
CacheAfterStore(o, value) ==
    IF dd_cache[o] # <<>> THEN <<dd_cache, lru_order>>
    ELSE IF Len(lru_order) >= lru_maxsize
         THEN <<[dd_cache EXCEPT ![lru_order[1]] = <<>>, ![o] = <<value>>],
                Append(Tail(lru_order), o)>>
         ELSE <<[dd_cache EXCEPT ![o] = <<value>>], Append(lru_order, o)>>

\* (FinalResponseNextPage: a get_deployment_data that asks for the next page
\* after a full page without a match.)
FinalResponseNextPage(t, status_code, body) ==
    /\ pc[t] = "request"
    /\ ~IsRetry(status_code)
    /\ LET self == objects[self_of[t]]
           commits_json == ResponseData(status_code, body)
           outcome == DeploymentData(self, commits_json)
       IN /\ ret' = [ret EXCEPT ![t] = outcome]
          /\ dd_cache' = IF outcome.kind = "return"
                         THEN CacheAfterStore(self_of[t], outcome.value)[1]
                         ELSE dd_cache
          /\ lru_order' = IF outcome.kind = "return"
                          THEN CacheAfterStore(self_of[t], outcome.value)[2]
                          ELSE lru_order
          /\ results' = IF outcome.kind = "return" /\ results[self_of[t]] = <<>>
                        THEN [results EXCEPT ![self_of[t]] = <<outcome.value>>]
                        ELSE results
          /\ last' = [kind |-> "computed", caller |-> t, self |-> self_of[t],
                      params |-> Params, status_code |-> status_code,
                      commits_json |-> commits_json, outcome |-> outcome]
    /\ responses' = [responses EXCEPT ![t] = Append(@, status_code)]
    /\ IF /\ status_code = 200
          /\ Len(body) = GITHUB_API_PAGE_SIZE
          /\ DeploymentData(objects[self_of[t]], body) = Returned(DefaultRecord)
       THEN /\ pc' = pc
            /\ fetches' = [fetches EXCEPT ![self_of[t]] = @ + 1]
       ELSE /\ pc' = [pc EXCEPT ![t] = "done"]
            /\ fetches' = fetches
    /\ UNCHANGED <<pod, k8s_cache, objects, self_of, documented, calls, k8s_reads>>

\* (FinalResponseStoresSha: a get_deployment_data that assigns the full sha of
\* the matching entry to self.pod_sha.)
FinalResponseStoresSha(t, status_code, body) ==
    /\ pc[t] = "request"
    /\ ~IsRetry(status_code)
    /\ LET self == objects[self_of[t]]
           commits_json == ResponseData(status_code, body)
           outcome == DeploymentData(self, commits_json)
       IN /\ ret' = [ret EXCEPT ![t] = outcome]
          /\ dd_cache' = IF outcome.kind = "return"
                         THEN CacheAfterStore(self_of[t], outcome.value)[1]
                         ELSE dd_cache
          /\ lru_order' = IF outcome.kind = "return"
                          THEN CacheAfterStore(self_of[t], outcome.value)[2]
                          ELSE lru_order
          /\ results' = IF outcome.kind = "return" /\ results[self_of[t]] = <<>>
                        THEN [results EXCEPT ![self_of[t]] = <<outcome.value>>]
                        ELSE results
          /\ objects' = IF outcome.kind = "return"
                           /\ "commit_sha" \in DOMAIN outcome.value
                        THEN [objects EXCEPT ![self_of[t]].pod_sha =
                                                 outcome.value.commit_sha]
                        ELSE objects
          /\ last' = [kind |-> "computed", caller |-> t, self |-> self_of[t],
                      params |-> Params, status_code |-> status_code,
                      commits_json |-> commits_json, outcome |-> outcome]
    /\ responses' = [responses EXCEPT ![t] = Append(@, status_code)]
    /\ pc' = [pc EXCEPT ![t] = "done"]
    /\ UNCHANGED <<pod, k8s_cache, self_of, documented, calls, k8s_reads, fetches>>

\* session.get returns a response that is not retried: make_api_request returns
\* its data, get_deployment_data computes its result, and lru_cache stores a
\* returned value.
FinalResponse(t, status_code, body) ==
    /\ pc[t] = "request"
    /\ ~IsRetry(status_code)
    /\ LET self == objects[self_of[t]]
           commits_json == ResponseData(status_code, body)
           outcome == DeploymentData(self, commits_json)
       IN /\ ret' = [ret EXCEPT ![t] = outcome]
          /\ dd_cache' = IF outcome.kind = "return"
                         THEN CacheAfterStore(self_of[t], outcome.value)[1]
                         ELSE dd_cache
          /\ lru_order' = IF outcome.kind = "return"
                          THEN CacheAfterStore(self_of[t], outcome.value)[2]
                          ELSE lru_order
          /\ results' = IF outcome.kind = "return" /\ results[self_of[t]] = <<>>
                        THEN [results EXCEPT ![self_of[t]] = <<outcome.value>>]
                        ELSE results
          /\ last' = [kind |-> "computed", caller |-> t, self |-> self_of[t],
                      params |-> Params, status_code |-> status_code,
                      commits_json |-> commits_json, outcome |-> outcome]
    /\ responses' = [responses EXCEPT ![t] = Append(@, status_code)]
    /\ pc' = [pc EXCEPT ![t] = "done"]
    /\ UNCHANGED <<pod, k8s_cache, objects, self_of, documented, calls,
                   k8s_reads, fetches>>

\* The caller has its result and is ready for a next request.
Finish(t) ==
    /\ pc[t] = "done"
    /\ pc' = [pc EXCEPT ![t] = "idle"]
    /\ ret' = [ret EXCEPT ![t] = NoOutcome]
    /\ self_of' = [self_of EXCEPT ![t] = 0]
    /\ responses' = [responses EXCEPT ![t] = <<>>]
    /\ documented' = [documented EXCEPT ![t] = FALSE]
    /\ last' = IF last.kind # "none" /\ last.caller = t THEN NoLast ELSE last
    /\ UNCHANGED <<pod, k8s_cache, objects, dd_cache, lru_order, results, calls,
                   k8s_reads, fetches>>

\* The steps of the callers in C.
NextFor(C) ==
    \/ \E t \in C : StartRequest(t)
    \/ \E t \in C : K8sReadOk(t)
    \/ \E t \in C : K8sReadFails(t)
    \/ \E t \in C : \E o \in 1..Len(objects) : CallGet(t, o)
    \/ \E t \in C : \E status_code \in StatusCodes :
           RetriedResponse(t, status_code)
    \/ \E t \in C : \E status_code \in StatusCodes :
           \E body \in (IF status_code = 200 THEN Pages ELSE {<<>>}) :
               FinalResponse(t, status_code, body)
    \/ \E t \in C : Finish(t)

\* One caller: the status requests of the process follow one another.
Next == NextFor({1})
Spec == Init /\ [][Next]_vars

\* Several callers: status requests of concurrent threads interleave at the
\* network calls.
NextThreads == NextFor(Callers)
InitThreads == InitWith(SeqsUpTo(ImageChars, MaxThreadImageLen), MaxCalls)
SpecThreads == InitThreads /\ [][NextThreads]_vars

\* A long-running process: one caller serves lru_maxsize + 1 status requests,
\* each answered 404 by the commits API, and as the last call asks the object of
\* the first request again.
ManyCalls == lru_maxsize + 2
InitMany == InitWith({<<":", "a">>}, ManyCalls)
NextMany ==
    \/ StartRequest(1)
    \/ K8sReadOk(1)
    \/ (calls = 1 /\ CallGet(1, 1))
    \/ FinalResponse(1, 404, <<>>)
    \/ Finish(1)
SpecMany == InitMany /\ [][NextMany]_vars

\* ------------------------------------------------------------ properties

ResolvedFields == {"branch", "commit_sha", "commit_merged", "commit_msg", "deployed_at"}
FailedFields == {"msg", "status_code"}
IsResolved(v) == DOMAIN v = ResolvedFields
IsFailed(v) == DOMAIN v = FailedFields

\* The callers whose request has ended on an object (the identity was resolved).
Done == {t \in Callers : pc[t] = "done" /\ self_of[t] # 0}

\* The statuses the claims call retryable.
RetryableStatuses == {500, 502, 503, 504, 408, 429}

SayTryAgainLater(msg) ==
    \E i \in 1..Len(msg) : msg[i] = " from GitHub, try again later"

\* The identifier occurs in the entry's sha (an entry without "sha" has sha "").
EntryMatches(identifier, item) ==
    IsDict(item) /\ Contains(identifier, Get(item, "sha", <<>>))

\* What make_api_request returned is an error result and no page of commits: its
\* first element carries a status_code.
IsErrorResult(commits_json) ==
    /\ commits_json # <<>>
    /\ IsDict(commits_json[1])
    /\ "status_code" \in DOMAIN commits_json[1]

\* C1: for a resolved identifier and a page returned with status 200 that holds
\* an entry whose sha contains the identifier, get() returns the Resolved record
\* built from the first such entry: its full sha, its message, its committer
\* date reformatted, the configured branch and the formatted pod creation time.
C1_FirstMatchResolved ==
    (/\ last.kind = "computed"
     /\ last.status_code = 200
     /\ ~IsErrorResult(last.commits_json)
     /\ objects[last.self].pod_sha # None
     /\ \E i \in 1..Len(last.commits_json) :
            EntryMatches(objects[last.self].pod_sha, last.commits_json[i]))
    => LET identifier == objects[last.self].pod_sha
           page == last.commits_json
           first == CHOOSE i \in 1..Len(page) :
                       /\ EntryMatches(identifier, page[i])
                       /\ \A j \in 1..(i - 1) : ~EntryMatches(identifier, page[j])
           entry == page[first]
       IN /\ last.outcome.kind = "return"
          /\ IsResolved(last.outcome.value)
          /\ last.outcome.value.commit_sha = Get(entry, "sha", <<>>)
          /\ last.outcome.value.commit_msg = entry.commit.message
          /\ last.outcome.value.commit_merged
                 = Strftime(entry.commit.committer.date.iso)
          /\ last.outcome.value.branch = GITHUB_DEPLOYMENT_BRANCH
          /\ last.outcome.value.deployed_at = Strftime(pod.creation_timestamp)

\* C2: when the image reference has no colon (pod_sha is None), get() returns
\* the record {msg "unable to lookup commit SHA", status_code 400}, whatever
\* the commits API answers.
C2_AbsentIdentifierFails400 ==
    \A t \in Done :
        objects[self_of[t]].pod_sha = None
        => ret[t] = Returned([msg |-> <<"unable to lookup commit SHA">>,
                              status_code |-> 400])

\* C3: when the identifier is present and the fetch succeeds with a page in
\* which no entry's sha contains it, get() returns exactly the default record
\* {msg "unable to lookup commit SHA", status_code 400}.
C3_NoMatchFails400 ==
    (/\ last.kind = "computed"
     /\ last.status_code = 200
     /\ ~IsErrorResult(last.commits_json)
     /\ objects[last.self].pod_sha # None
     /\ \A i \in 1..Len(last.commits_json) :
            ~EntryMatches(objects[last.self].pod_sha, last.commits_json[i]))
    => last.outcome = Returned([msg |-> <<"unable to lookup commit SHA">>,
                                status_code |-> 400])

\* C4: when every attempt of the fetch is answered with a retryable status until
\* the retries are exhausted, get() returns a record with status_code 503 whose
\* message says "try again later", and raises nothing.
C4_ExhaustionReturns503 ==
    \A t \in Done :
        (/\ Len(responses[t]) = GITHUB_API_MAXIMUM_RETRIES + 1
         /\ \A i \in 1..Len(responses[t]) : responses[t][i] \in RetryableStatuses)
        => /\ ret[t].kind = "return"
           /\ IsFailed(ret[t].value)
           /\ ret[t].value.status_code = 503
           /\ SayTryAgainLater(ret[t].value.msg)

C6_OneFetchSameResult ==
    \A t \in Done :
        (documented[t] /\ ret[t].kind = "return")
        => \A o \in 1..Len(dd_cache) :
               (o # self_of[t] /\ dd_cache[o] # <<>>)
               => /\ responses[t] = <<>>
                  /\ dd_cache[o][1] = ret[t].value

\* C7: when several callers call get() concurrently before a result is cached,
\* the control-plane read and the history fetch are each executed at most once
\* per cache key (never by two callers at a time), and the callers of one key
\* observe the same result.
C7_AtMostOnceUnderConcurrency ==
    /\ Cardinality({t \in Callers : pc[t] = "k8s_read"}) <= 1
    /\ \A t1, t2 \in Callers :
           (t1 # t2 /\ pc[t1] = "request" /\ pc[t2] = "request")
           => self_of[t1] # self_of[t2]
    /\ \A t1, t2 \in Done :
           (self_of[t1] = self_of[t2] /\ ret[t1].kind = "return"
            /\ ret[t2].kind = "return")
           => ret[t1] = ret[t2]

\* C8: once the runtime identity is resolved, get() never raises: for every
\* outcome of the fetch it returns a record that is Resolved or Failed.
C8_GetNeverRaises ==
    \A t \in Done :
        /\ ret[t].kind = "return"
        /\ IsResolved(ret[t].value) \/ IsFailed(ret[t].value)

C10_IdentifierAfterLastColon ==
    LET image == pod.image
        colons == {i \in 1..Len(image) : image[i] = ":"}
        expected ==
            IF colons = {} THEN None
            ELSE LET k == CHOOSE i \in colons : \A j \in colons : j <= i
                 IN [n \in 1..(Len(image) - k) |-> image[k + n]]
    IN /\ k8s_cache # <<>> => k8s_cache[1][2] = expected
       /\ \A o \in 1..Len(objects) : objects[o].pod_sha = expected

\* The identity was resolved from an image with several colons and text after
\* the last one.
C10_Witness ==
    /\ k8s_cache # <<>>
    /\ Cardinality({i \in 1..Len(pod.image) : pod.image[i] = ":"}) >= 2
    /\ pod.image[Len(pod.image)] # ":"
    /\ objects # <<>>

\* C11: in a sequence of get_k8s_data() calls, once the control-plane read has
\* succeeded no further read is performed, the cached pair never changes and
\* every object constructed afterwards carries that pair; a call whose read
\* fails ends with the control plane's error, leaves the cache empty, and the
\* next request then performs the read again.
C11_ReadOnceAfterSuccess ==
    [][/\ k8s_cache # <<>> =>
            /\ k8s_reads' = k8s_reads
            /\ k8s_cache' = k8s_cache
            /\ \A t \in Callers : pc'[t] # "k8s_read"
            /\ \A o \in (Len(objects) + 1)..Len(objects') :
                   objects'[o] = NewDeploymentStatus(k8s_cache[1])
        /\ \A t \in Callers :
            /\ (pc[t] = "k8s_read" /\ pc'[t] = "done") =>
                   /\ ret'[t] = Raised("ApiException")
                   /\ k8s_cache' = <<>>
                   /\ k8s_reads' = k8s_reads + 1
            /\ (pc[t] = "idle" /\ documented'[t] /\ k8s_cache = <<>>) =>
                   /\ pc'[t] = "k8s_read"
                   /\ Len(objects') = Len(objects)
            /\ (pc[t] = "k8s_read" /\ pc'[t] = "request") =>
                   /\ k8s_cache' = <<K8sData(pod)>>
                   /\ k8s_reads' = k8s_reads + 1]_vars

\* A first request's read failed, the second request read again and succeeded.
C11_Witness ==
    /\ k8s_reads = 2
    /\ k8s_cache = <<K8sData(pod)>>
    /\ Len(objects) = 1

C13_ErrorElementReturnedUnscanned ==
    (last.kind = "computed" /\ IsErrorResult(last.commits_json)) =>
        /\ last.outcome = Returned(last.commits_json[1])
        /\ ret[last.caller] = Returned(last.commits_json[1])
        /\ IsFailed(ret[last.caller].value)

\* A page answered with 200 whose first element carries a status_code and whose
\* second element is a commit matching the identifier.
C13_Witness ==
    /\ last.kind = "computed"
    /\ last.status_code = 200
    /\ Len(last.commits_json) = 2
    /\ IsErrorResult(last.commits_json)
    /\ objects[last.self].pod_sha \notin {None, <<>>}
    /\ "sha" \in DOMAIN last.commits_json[2]
    /\ EntryMatches(objects[last.self].pod_sha, last.commits_json[2])
    /\ StrptimeOk(Get(Get(Get(last.commits_json[2], "commit", EmptyDict),
                          "committer", EmptyDict), "date", EmptyDateStr))

\* C14: every get() that is not served from the cache issues exactly one history
\* fetch, with the configured branch and page size: the fetch count of an object
\* grows by one exactly when a call on it starts past the cache, a call that is
\* under way goes on only by retrying after a retried status, and the answer that
\* is not retried ends the call, with or without a matching entry.
C14_OneFetchPerAttempt ==
    [][/\ Len(fetches') >= Len(fetches)
       /\ \A o \in 1..Len(fetches') :
              LET was == IF o <= Len(fetches) THEN fetches[o] ELSE 0
              IN fetches'[o] # was =>
                     /\ fetches'[o] = was + 1
                     /\ \E t \in Callers : /\ pc[t] # "request"
                                            /\ pc'[t] = "request"
                                            /\ self_of'[t] = o
       /\ \A t \in Callers :
              /\ (pc[t] # "request" /\ pc'[t] = "request") =>
                     fetches'[self_of'[t]] =
                         1 + (IF self_of'[t] <= Len(fetches)
                              THEN fetches[self_of'[t]] ELSE 0)
              /\ (pc[t] = "request" /\ pc'[t] = "request") =>
                     \/ responses'[t] = responses[t]
                     \/ \E status_code \in RetryableStatuses :
                            responses'[t] = Append(responses[t], status_code)
              /\ (pc[t] = "request" /\ pc'[t] # "request") =>
                     /\ pc'[t] = "done"
                     /\ Len(responses'[t]) = Len(responses[t]) + 1
       /\ last'.kind = "computed" =>
              /\ last'.params = [sha |-> GITHUB_DEPLOYMENT_BRANCH,
                                 per_page |-> GITHUB_API_PAGE_SIZE]
              /\ Len(last'.commits_json) <= GITHUB_API_PAGE_SIZE]_vars

\* A first get() on an object received a full page without a matching entry and
\* ended with the default record after its one fetch.
C14_Witness ==
    /\ last.kind = "computed"
    /\ last.status_code = 200
    /\ Len(last.commits_json) = GITHUB_API_PAGE_SIZE
    /\ objects[last.self].pod_sha # None
    /\ \A i \in 1..Len(last.commits_json) :
           ~EntryMatches(objects[last.self].pod_sha, last.commits_json[i])
    /\ last.outcome = Returned(DefaultRecord)
    /\ pc[last.caller] = "done"
    /\ fetches[last.self] = 1

\* C15: once get() has returned a result on an object, every later get() on that
\* object returns that same result without a new history fetch: a get() on an
\* existing object that has returned before is never found fetching, and ends
\* with the result the object returned first.
C15_ResultKeptForLife ==
    \A t \in Callers :
        (self_of[t] # 0 /\ ~documented[t] /\ results[self_of[t]] # <<>>) =>
            /\ pc[t] = "done"
            /\ ret[t] = Returned(results[self_of[t]][1])

\* C16: no step of get(), of make_api_request or of get_deployment_data changes
\* an object that exists: its pod_sha, pod_created_time and
\* github_commits_api_url keep the values __init__ gave them, whatever the
\* fetch's outcome.
C16_FieldsUnchanged ==
    [][/\ Len(objects') >= Len(objects)
       /\ \A o \in 1..Len(objects) :
              /\ objects'[o].pod_sha = objects[o].pod_sha
              /\ objects'[o].pod_created_time = objects[o].pod_created_time
              /\ objects'[o].github_commits_api_url =
                     objects[o].github_commits_api_url]_vars

\* A get() has returned a Resolved record whose full sha is longer than the
\* identifier it matched, and the object still has the fields of its
\* construction.
C16_Witness ==
    /\ last.kind = "computed"
    /\ last.outcome.kind = "return"
    /\ IsResolved(last.outcome.value)
    /\ last.outcome.value.commit_sha # objects[last.self].pod_sha
    /\ objects[last.self] = NewDeploymentStatus(K8sData(pod))
    /\ pc[last.caller] = "done"

\* C17: when the image reference ends with a colon the identifier is the empty
\* string, and for every page returned with status 200 that is no error result
\* and holds an object entry, get() returns the Resolved record of the first
\* object entry of the page, never the default record.
C17_EmptyIdentifierResolvesFirst ==
    (/\ last.kind = "computed"
     /\ last.status_code = 200
     /\ ~IsErrorResult(last.commits_json)
     /\ Len(pod.image) > 0
     /\ pod.image[Len(pod.image)] = ":"
     /\ \E i \in 1..Len(last.commits_json) : IsDict(last.commits_json[i])) =>
        LET first == CHOOSE i \in 1..Len(last.commits_json) :
                         /\ IsDict(last.commits_json[i])
                         /\ \A j \in 1..(i - 1) : ~IsDict(last.commits_json[j])
            item == last.commits_json[first]
        IN /\ objects[last.self].pod_sha = <<>>
           /\ ret[last.caller].kind = "return"
           /\ IsResolved(ret[last.caller].value)
           /\ ret[last.caller].value.commit_sha = Get(item, "sha", <<>>)

=============================================================================
